---------------------------- MODULE Spec2Model ----------------------------
(***************************************************************************)
(* Telemetry core of the Heft plugins (packages/telemetry-core) and the    *)
(* run hook of the stylelint plugin that drives it.                        *)
(*                                                                         *)
(* Strings are sequences of one-character strings, so that toLowerCase,    *)
(* includes and the || fallback are computed as the code computes them.    *)
(* An optional value (string | undefined) is a set with at most one        *)
(* element: {} is undefined, {s} is the string s.                          *)
(***************************************************************************)
EXTENDS Integers, Sequences, FiniteSets, TLC

VARIABLES
    env,          \* process.env: variable name -> optional string
    envChanges,   \* number of changes made to process.env so far
    constructed,  \* a TelemetryClient instance exists
    optedOut,     \* what isTelemetryDisabled() returned to the constructor
    _enabled,     \* TelemetryClient._enabled
    _client,      \* TelemetryClient._client is defined (appInsights.defaultClient)
    _context,     \* TelemetryClient._context
    sessionIds,   \* number of session ids generated so far
    sinkUsed,     \* some operation was performed on the sink
    sunk,         \* the operations the latest call performed on the sink, in order
    promises,     \* one record per flush() call: its promise, timer and sink callback
    lastCall,     \* the latest call on the client and how it returned to its caller
    nCalls,       \* number of calls made on the client by its caller
    gateResult,   \* the value isTelemetryDisabled() returned when last called directly
    pc,           \* position of the plugin's run hook
    runs,         \* number of run-hook invocations started
    body,         \* what the task body of the current run does
    warningCount, \* the run hook's local warningCount
    warningLines, \* the warning lines the current run wrote to the terminal
    hookTimer,    \* the run hook's own 2-second timer is armed
    thrown,       \* the error the current run is throwing, if any
    clientCalls,  \* the calls the current run made on the telemetry client, in order
    hookResult,   \* how the run hook's promise settled
    utilCall,     \* the function of utils called directly, if any
    message,      \* the string passed to that function
    maxLength,    \* the maxLength passed to truncateString
    sanitized,    \* sanitizeErrorMessage's local after the substitutions
    output,       \* the string the function returned
    gotContext,   \* the object getContext() returned to the caller, if any
    lib,          \* the compiled output: whether lib/ exists, and its .js files
    buildEnv,     \* process.env.APP_INSIGHTS_CONNECTION_STRING of the build
    script,       \* position of inject-connection-string.js
    jsFiles,      \* the files main() has still to go through
    updatedCount  \* main()'s updatedCount

envVars    == <<env, envChanges>>
clientVars == <<constructed, optedOut, _enabled, _client, _context, sessionIds>>
sinkVars   == <<sinkUsed, sunk, promises>>
callerVars == <<lastCall, nCalls>>
pluginVars == <<pc, runs, body, warningCount, warningLines, hookTimer, thrown, clientCalls,
                hookResult>>
textVars   == <<utilCall, message, maxLength, sanitized, output>>
utilVars   == <<gateResult, textVars>>
accessorVars == <<gotContext>>
injectVars == <<lib, buildEnv, script, jsFiles, updatedCount>>
vars == <<envVars, clientVars, sinkVars, callerVars, utilVars, accessorVars, injectVars,
          pluginVars>>

---------------------------------------------------------------------------
(* Bounds of the model. *)

\* calls a caller makes on one client
MaxCalls == 3
\* flush() calls a caller makes on one client
MaxFlushes == 1
\* changes made to the environment variables
MaxEnvChanges == 1
\* invocations of the plugin's run hook on one plugin instance
MaxRuns == 2
\* warnings stylelint reports in one run
MaxWarnings == 2

---------------------------------------------------------------------------
(* Strings and optional values. *)

undefined == {}

Some(s) == {s}

Get(o) == CHOOSE s \in o : TRUE

\* JavaScript truthiness of a string | undefined: undefined and '' are falsy.
Truthy(o) == o # undefined /\ o # Some(<<>>)

\* a || b on optional strings
OrElse(a, b) == IF Truthy(a) THEN a ELSE b

UpperCase == <<"A", "B", "C", "D", "E", "F", "G", "H", "I", "J", "K", "L", "M",
               "N", "O", "P", "Q", "R", "S", "T", "U", "V", "W", "X", "Y", "Z">>

LowerCase == <<"a", "b", "c", "d", "e", "f", "g", "h", "i", "j", "k", "l", "m",
               "n", "o", "p", "q", "r", "s", "t", "u", "v", "w", "x", "y", "z">>

toLowerChar(c) ==
    IF \E i \in 1..Len(UpperCase) : UpperCase[i] = c
    THEN LowerCase[CHOOSE i \in 1..Len(UpperCase) : UpperCase[i] = c]
    ELSE c

\* String.prototype.toLowerCase
toLowerCase(s) == [i \in 1..Len(s) |-> toLowerChar(s[i])]

\* String.prototype.includes
includes(s, sub) ==
    \E i \in 0..(Len(s) - Len(sub)) : SubSeq(s, i + 1, i + Len(sub)) = sub

---------------------------------------------------------------------------
(* utils: the opt-out gate and the credential check. *)

TELEMETRY_OPT_OUT_VARS ==
    <<"HEFT_TELEMETRY_DISABLED", "DISABLE_TELEMETRY", "DO_NOT_TRACK", "TELEMETRY_DISABLED">>

CONNECTION_STRING_VAR == "HEFT_PLUGINS_APP_INSIGHTS_CONNECTION_STRING"

EnvNames ==
    {TELEMETRY_OPT_OUT_VARS[i] : i \in 1..Len(TELEMETRY_OPT_OUT_VARS)}
        \cup {CONNECTION_STRING_VAR}

\* The mutation of OptsOut that compares without lowering the case.
OptsOutCaseSensitive(value) ==
    \/ value = Some(<<"1">>)
    \/ value = Some(<<"t", "r", "u", "e">>)

\* value === '1' || value?.toLowerCase() === 'true'
OptsOut(value) ==
    \/ value = Some(<<"1">>)
    \/ value # undefined /\ toLowerCase(Get(value)) = <<"t", "r", "u", "e">>

\* isTelemetryDisabled(), reading the environment e
isTelemetryDisabled(e) ==
    \E i \in 1..Len(TELEMETRY_OPT_OUT_VARS) : OptsOut(e[TELEMETRY_OPT_OUT_VARS[i]])

InstrumentationKeyMarker ==
    <<"I", "n", "s", "t", "r", "u", "m", "e", "n", "t", "a", "t", "i", "o", "n",
      "K", "e", "y", "=">>

IngestionEndpointMarker ==
    <<"I", "n", "g", "e", "s", "t", "i", "o", "n", "E", "n", "d", "p", "o", "i",
      "n", "t", "=">>

\* isValidConnectionString(connectionString)
isValidConnectionString(connectionString) ==
    IF connectionString = <<>>
    THEN FALSE
    ELSE \/ includes(connectionString, InstrumentationKeyMarker)
         \/ includes(connectionString, IngestionEndpointMarker)

DEFAULT_CONNECTION_STRING ==
    <<"_", "_", "H", "E", "F", "T", "_", "P", "L", "U", "G", "I", "N", "S", "_",
      "A", "P", "P", "_", "I", "N", "S", "I", "G", "H", "T", "S", "_", "C", "O",
      "N", "N", "E", "C", "T", "I", "O", "N", "_", "S", "T", "R", "I", "N", "G",
      "_", "_">>

\* The mutation of _getConnectionString that prefers the environment variable.
_getConnectionStringEnvFirst(configConnectionString, e) ==
    Get(OrElse(e[CONNECTION_STRING_VAR],
               OrElse(configConnectionString, Some(DEFAULT_CONNECTION_STRING))))

\* TelemetryClient._getConnectionString(configConnectionString), reading e
_getConnectionString(configConnectionString, e) ==
    Get(OrElse(configConnectionString,
               OrElse(e[CONNECTION_STRING_VAR], Some(DEFAULT_CONNECTION_STRING))))

---------------------------------------------------------------------------
(* The values handed to the client and the sink's possible answers. *)

PACKAGE_NAME == "@voitanos/heft-stylelint-plugin"

ValidConnectionStrings ==
    {InstrumentationKeyMarker \o <<"k">>, <<"x", ";">> \o IngestionEndpointMarker \o <<"u">>}

InvalidConnectionStrings ==
    {<<>>,
     <<"i", "n", "s", "t", "r", "u", "m", "e", "n", "t", "a", "t", "i", "o", "n",
       "k", "e", "y", "=", "k">>,
     SubSeq(InstrumentationKeyMarker, 1, Len(InstrumentationKeyMarker) - 1)}

ConnectionStrings == ValidConnectionStrings \cup InvalidConnectionStrings

\* The constructor's argument; connectionString is optional.
Configs ==
    [pluginName : {PACKAGE_NAME}, pluginVersion : {"0.0.0-unknown"},
     connectionString : {undefined} \cup {Some(s) : s \in ConnectionStrings}]

\* What appInsights does during the constructor's try block.
SetupOutcomes == {"ok", "setupThrows", "processorThrows"}

\* What a sink call (trackEvent, trackMetric) does.
SinkOutcomes == {"ok", "throw"}

\* What the sink's flush does: keep the callback, throw, or call back at once.
FlushOutcomes == {"ok", "throw", "callbackNow"}

Installed == "plugin.installed"
Started == "plugin.started"
Completed == "plugin.completed"
Error == "plugin.error"
Warning == "plugin.warning"

PluginOutcome == {"success", "warning", "error"}

Digits == <<"0", "1", "2", "3", "4", "5", "6", "7", "8", "9">>

RECURSIVE String(_)
\* String(n) for a non-negative integer n
String(n) ==
    IF n < 10 THEN <<Digits[n + 1]>>
    ELSE String(n \div 10) \o <<Digits[(n % 10) + 1]>>

\* A thrown value: whether it is an Error instance, the name of its constructor,
\* its message property and what String() makes of it.
Thrown(isError, name, msg, text) ==
    [isError |-> isError, name |-> name, message |-> msg, text |-> text]

\* getErrorType(error)
getErrorType(error) == IF error.isError THEN error.name ELSE "UnknownError"

---------------------------------------------------------------------------
(* utils: the sanitizer. A pattern's match at position i is given by the     *)
(* index just after the match, or 0 when the pattern does not match at i.    *)

Letters == {LowerCase[i] : i \in 1..Len(LowerCase)} \cup {UpperCase[i] : i \in 1..Len(UpperCase)}

\* \d
DigitChars == {Digits[i] : i \in 1..Len(Digits)}

\* \w
WordChars == Letters \cup DigitChars \cup {"_"}

\* [\w.-]
SegmentChars == WordChars \cup {".", "-"}

\* [0-9a-f] under the i flag
HexChars == DigitChars \cup {"a", "b", "c", "d", "e", "f", "A", "B", "C", "D", "E", "F"}

\* \s
Whitespace == {" ", "\t", "\n", "\r"}

\* The first index from i on whose character is not in chars.
SkipWhile(s, i, chars) ==
    CHOOSE j \in i..(Len(s) + 1) :
        /\ \A k \in i..(j - 1) : s[k] \in chars
        /\ j = Len(s) + 1 \/ s[j] \notin chars

\* The first index from i on whose character is in chars.
SkipUntil(s, i, chars) ==
    CHOOSE j \in i..(Len(s) + 1) :
        /\ \A k \in i..(j - 1) : s[k] \notin chars
        /\ j = Len(s) + 1 \/ s[j] \in chars

\* The literal text occurs in s at position i.
StartsAt(s, i, text) ==
    /\ i + Len(text) - 1 <= Len(s)
    /\ \A k \in 1..Len(text) : s[i + k - 1] = text[k]

\* /https?:\/\/[^\s]+/
MatchUrl(s, i) ==
    LET p == IF StartsAt(s, i, <<"h", "t", "t", "p", "s", ":", "/", "/">>) THEN i + 8
             ELSE IF StartsAt(s, i, <<"h", "t", "t", "p", ":", "/", "/">>) THEN i + 7
             ELSE 0
        e == SkipUntil(s, p, Whitespace)
    IN  IF p = 0 \/ e = p THEN 0 ELSE e

\* /[\w.-]+@[\w.-]+\.\w+/ : the second run gives back characters up to its
\* last dot that a word character follows.
MatchEmail(s, i) ==
    LET a == SkipWhile(s, i, SegmentChars)
        b == SkipWhile(s, a + 1, SegmentChars)
        dots == {d \in (a + 2)..(b - 2) : s[d] = "." /\ s[d + 1] \in WordChars}
        last == CHOOSE d \in dots : \A e \in dots : e <= d
    IN  IF a = i \/ a > Len(s) \/ s[a] # "@" \/ dots = {} THEN 0
        ELSE SkipWhile(s, last + 1, WordChars)

\* \d{1,3} followed by a dot: the index after the dot, or 0.
Octet(s, i) ==
    LET e == SkipWhile(s, i, DigitChars)
    IN  IF i # 0 /\ e - i \in 1..3 /\ e <= Len(s) /\ s[e] = "." THEN e + 1 ELSE 0

\* /\b\d{1,3}\.\d{1,3}\.\d{1,3}\.\d{1,3}\b/
MatchIp(s, i) ==
    LET o == Octet(s, Octet(s, Octet(s, i)))
        e == SkipWhile(s, o, DigitChars)
    IN  IF /\ i = 1 \/ s[i - 1] \notin WordChars
           /\ o # 0
           /\ e - o \in 1..3
           /\ e > Len(s) \/ s[e] \notin WordChars
        THEN e ELSE 0

\* /[0-9a-f]{8}-[0-9a-f]{4}-[0-9a-f]{4}-[0-9a-f]{4}-[0-9a-f]{12}/gi
MatchUuid(s, i) ==
    IF /\ i + 35 <= Len(s)
       /\ \A k \in 0..35 :
            IF k \in {8, 13, 18, 23} THEN s[i + k] = "-" ELSE s[i + k] \in HexChars
    THEN i + 36 ELSE 0

RECURSIVE UnixSegments(_, _)
\* (?:\/[\w.-]+)+ from i: the index after the last segment, i when there is none.
UnixSegments(s, i) ==
    IF i + 1 <= Len(s) /\ s[i] = "/" /\ s[i + 1] \in SegmentChars
    THEN UnixSegments(s, SkipWhile(s, i + 1, SegmentChars))
    ELSE i

\* /(?:\/[\w.-]+)+\/?/
MatchUnixPath(s, i) ==
    LET e == UnixSegments(s, i)
    IN  IF e = i THEN 0
        ELSE IF e <= Len(s) /\ s[e] = "/" THEN e + 1 ELSE e

\* [\w.-]+\\ at i: the index after the backslash, i when it does not match.
WindowsSegment(s, i) ==
    LET e == SkipWhile(s, i, SegmentChars)
    IN  IF e > i /\ e <= Len(s) /\ s[e] = "\\" THEN e + 1 ELSE i

RECURSIVE WindowsSegments(_, _)
\* (?:[\w.-]+\\)* from i: the index after the last segment closed by a backslash.
WindowsSegments(s, i) ==
    IF WindowsSegment(s, i) = i THEN i ELSE WindowsSegments(s, WindowsSegment(s, i))

\* /[A-Za-z]:\\(?:[\w.-]+\\)*/
MatchWindowsPath(s, i) ==
    IF i + 2 <= Len(s) /\ s[i] \in Letters /\ s[i + 1] = ":" /\ s[i + 2] = "\\"
    THEN WindowsSegments(s, i + 3) ELSE 0

Match(pattern, s, i) ==
    CASE pattern = "url" -> MatchUrl(s, i)
      [] pattern = "email" -> MatchEmail(s, i)
      [] pattern = "ip" -> MatchIp(s, i)
      [] pattern = "uuid" -> MatchUuid(s, i)
      [] pattern = "unixPath" -> MatchUnixPath(s, i)
      [] pattern = "windowsPath" -> MatchWindowsPath(s, i)

UrlToken == <<"[", "U", "R", "L", "]">>
EmailToken == <<"[", "E", "M", "A", "I", "L", "]">>
IpToken == <<"[", "I", "P", "]">>
UuidToken == <<"[", "U", "U", "I", "D", "]">>
PathToken == <<"[", "P", "A", "T", "H", "]">>

\* The mutation of SANITIZE_PATTERNS that redacts paths before URLs.
SANITIZE_PATTERNS_PathsFirst ==
    <<[pattern |-> "unixPath", replacement |-> PathToken],
      [pattern |-> "windowsPath", replacement |-> PathToken],
      [pattern |-> "url", replacement |-> UrlToken],
      [pattern |-> "email", replacement |-> EmailToken],
      [pattern |-> "ip", replacement |-> IpToken],
      [pattern |-> "uuid", replacement |-> UuidToken]>>

SANITIZE_PATTERNS ==
    <<[pattern |-> "url", replacement |-> UrlToken],
      [pattern |-> "email", replacement |-> EmailToken],
      [pattern |-> "ip", replacement |-> IpToken],
      [pattern |-> "uuid", replacement |-> UuidToken],
      [pattern |-> "unixPath", replacement |-> PathToken],
      [pattern |-> "windowsPath", replacement |-> PathToken]>>

\* One step of the scan of s.replace(pattern, replacement) at position i:
\* a match is replaced and the scan goes on after it, any other character is
\* kept.
ScanStep(s, i, pattern, replacement) ==
    LET e == Match(pattern, s, i)
    IN  IF i > Len(s) THEN [next |-> i, out |-> <<>>]
        ELSE IF e = 0 THEN [next |-> i + 1, out |-> <<s[i]>>]
        ELSE [next |-> e, out |-> replacement]

\* Two stretches of the scan, one after the other.
Joined(first, rest) == [next |-> rest.next, out |-> first.out \o rest.out]

RECURSIVE Scan(_, _, _, _, _)
\* The scan goes on for another 2^k steps after the stretch first.
ScanOn(first, s, k, pattern, replacement) ==
    IF first.next > Len(s) THEN first
    ELSE Joined(first, Scan(s, first.next, k, pattern, replacement))

\* 2^k steps of the scan from position i.
Scan(s, i, k, pattern, replacement) ==
    IF k = 0 THEN ScanStep(s, i, pattern, replacement)
    ELSE ScanOn(Scan(s, i, k - 1, pattern, replacement), s, k - 1, pattern, replacement)

RECURSIVE Doublings(_)
\* The least k with 2^k >= n.
Doublings(n) == IF n <= 1 THEN 0 ELSE 1 + Doublings((n + 1) \div 2)

\* s.replace(pattern, replacement) with the g flag: matches are taken from
\* left to right and do not overlap.
replace(s, pattern, replacement) ==
    Scan(s, 1, Doublings(Len(s)), pattern, replacement).out

RECURSIVE Substituted(_, _)
\* The local sanitized after the first k patterns were applied to message.
Substituted(s, k) ==
    IF k = 0 THEN s
    ELSE replace(Substituted(s, k - 1), SANITIZE_PATTERNS[k].pattern,
                 SANITIZE_PATTERNS[k].replacement)

\* String.prototype.substring(0, end): a negative end counts as 0.
substring(s, end) ==
    SubSeq(s, 1, IF end < 0 THEN 0 ELSE IF end > Len(s) THEN Len(s) ELSE end)

\* The mutation of truncateString that cuts at maxLength before it appends "...".
truncateStringLate(str, max) ==
    IF Len(str) <= max THEN str
    ELSE substring(str, max) \o <<".", ".", ".">>

\* truncateString(str, maxLength)
truncateString(str, max) ==
    IF Len(str) <= max THEN str
    ELSE substring(str, max - 3) \o <<".", ".", ".">>

\* The body of sanitizeErrorMessage(message).
Sanitize(s) == truncateString(Substituted(s, Len(SANITIZE_PATTERNS)), 512)

\* `Stylelint warning: ${text}`
StylelintWarningMessage(text) ==
    <<"S", "t", "y", "l", "e", "l", "i", "n", "t", " ", "w", "a", "r", "n", "i", "n",
      "g", ":", " ">> \o text

\* The short messages the callers of the client pass in every run.
ShortMessages ==
    {<<>>, <<"x">>, <<"/", "a">>, <<"a", "@", "b", ".", "c">>,
     StylelintWarningMessage(<<"/", "a">>)}

\* Sanitize on the short messages, computed once.
Sanitized == [s \in ShortMessages |-> Sanitize(s)]

\* sanitizeErrorMessage(message)
sanitizeErrorMessage(s) == IF s \in ShortMessages THEN Sanitized[s] ELSE Sanitize(s)

---------------------------------------------------------------------------
(* TelemetryClient. *)

\* The mutation of Propagates for a try block without its catch.
PropagatesUncaught(exception) == exception

\* Whether an exception thrown inside try { ... } catch { } reaches the caller.
Propagates(exception) == FALSE

\* How a call on the client returned, and what it did on the sink.
Returned(method, args, ops, sinkThrew, threw) ==
    /\ sunk' = ops
    /\ sinkUsed' = (sinkUsed \/ ops # <<>>)
    /\ lastCall' = [method |-> method, args |-> args, sinkThrew |-> sinkThrew,
                    threw |-> threw]

\* if (!this._enabled || !this._client) return;
Inactive == ~_enabled \/ ~_client

\* TelemetryClient._getContextProperties()
_getContextProperties ==
    [pluginName |-> _context.pluginName, pluginVersion |-> _context.pluginVersion,
     sessionId |-> _context.sessionId]

\* The mutation of getContext that returns the client's own object.
getContextByReference == [shared |-> TRUE, written |-> FALSE, value |-> _context]

\* TelemetryClient.getContext(): a new object with the fields of _context.
\* shared tells whether the object is the client's own, written whether the
\* caller has assigned to it since.
getContext == [shared |-> FALSE, written |-> FALSE, value |-> _context]

\* this._client.trackEvent({name, properties}); context is what the telemetry
\* processor the constructor registered merges into the event's properties
\* when the sink passes the event through it.
TrackEvent(name, properties) ==
    [op |-> "trackEvent", name |-> name, properties |-> properties,
     context |-> _getContextProperties]

\* The constructor's first statements: the opt-out gate and the context.
Built(config) ==
    /\ optedOut' = isTelemetryDisabled(env)
    /\ _context' = [sessionId |-> sessionIds + 1,
                    pluginName |-> config.pluginName,
                    pluginVersion |-> config.pluginVersion]
    /\ sessionIds' = sessionIds + 1

\* The constructor returns without touching the sink.
LeftDisabled(config, validated) ==
    /\ _enabled' = FALSE /\ _client' = FALSE /\ constructed' = TRUE
    /\ sunk' = <<>> /\ sinkUsed' = sinkUsed
    /\ lastCall' = [method |-> "constructor", config |-> config,
                    validated |-> validated, sinkThrew |-> FALSE, threw |-> FALSE]

\* The constructor's try block: appInsights.setup(...).start(), defaultClient,
\* addTelemetryProcessor; the catch block disables the client.
SetUp(config, connectionString, r) ==
    LET setup == [op |-> "setup", connectionString |-> connectionString]
        processor == [op |-> "addTelemetryProcessor"]
    IN  /\ _client' = (r # "setupThrows")
        /\ _enabled' = (r = "ok")
        /\ constructed' = ~Propagates(r # "ok")
        /\ sunk' = IF r = "setupThrows" THEN <<setup>> ELSE <<setup, processor>>
        /\ sinkUsed' = TRUE
        /\ lastCall' = [method |-> "constructor", config |-> config,
                        validated |-> Some(connectionString),
                        sinkThrew |-> (r # "ok"), threw |-> Propagates(r # "ok")]

\* The mutation of the constructor that sets the sink up before it looks at
\* the opt-out gate.
ConstructUngated(config, r) ==
    LET connectionString == _getConnectionString(config.connectionString, env)
    IN  /\ Built(config)
        /\ IF ~isValidConnectionString(connectionString)
           THEN LeftDisabled(config, Some(connectionString))
           ELSE SetUp(config, connectionString, r)

\* The mutation of the constructor that skips the credential check.
ConstructUnchecked(config, r) ==
    LET connectionString == _getConnectionString(config.connectionString, env)
    IN  /\ Built(config)
        /\ IF isTelemetryDisabled(env)
           THEN LeftDisabled(config, undefined)
           ELSE SetUp(config, connectionString, r)

\* new TelemetryClient(config); r is what appInsights does if it is set up.
Construct(config, r) ==
    LET connectionString == _getConnectionString(config.connectionString, env)
    IN  /\ Built(config)
        /\ IF isTelemetryDisabled(env)
           THEN LeftDisabled(config, undefined)
           ELSE IF ~isValidConnectionString(connectionString)
           THEN LeftDisabled(config, Some(connectionString))
           ELSE SetUp(config, connectionString, r)

\* The mutation of isEnabled() that evaluates the opt-out gate on every call.
isEnabledPerCall == _enabled /\ ~isTelemetryDisabled(env)

\* TelemetryClient.isEnabled()
isEnabled == _enabled

\* TelemetryClient.trackPluginInstalled(); r is what the sink's trackEvent does.
trackPluginInstalled(r) ==
    IF Inactive
    THEN Returned("trackPluginInstalled", <<>>, <<>>, FALSE, FALSE)
    ELSE Returned("trackPluginInstalled", <<>>,
                  <<TrackEvent(Installed, [a \in {} |-> a])>>,
                  r = "throw", Propagates(r = "throw"))

\* TelemetryClient.trackPluginStarted()
trackPluginStarted(r) ==
    IF Inactive
    THEN Returned("trackPluginStarted", <<>>, <<>>, FALSE, FALSE)
    ELSE Returned("trackPluginStarted", <<>>, <<TrackEvent(Started, [a \in {} |-> a])>>,
                  r = "throw", Propagates(r = "throw"))

\* The mutation of trackPluginCompleted that sends the metric first.
trackPluginCompletedMetricFirst(durationMs, outcome, count, r1, r2) ==
    LET n == IF count = undefined THEN 0 ELSE Get(count)
        event == [op |-> "trackEvent", name |-> Completed,
                  properties |-> [outcome |-> outcome, warningCount |-> String(n)],
                  measurements |-> [durationMs |-> durationMs],
                  context |-> _getContextProperties]
        metric == [op |-> "trackMetric", name |-> "plugin.duration",
                   value |-> durationMs, properties |-> [outcome |-> outcome],
                   context |-> _getContextProperties]
        args == [durationMs |-> durationMs, outcome |-> outcome, warningCount |-> count]
    IN  IF Inactive
        THEN Returned("trackPluginCompleted", args, <<>>, FALSE, FALSE)
        ELSE IF r1 = "throw"
        THEN Returned("trackPluginCompleted", args, <<metric>>, TRUE, Propagates(TRUE))
        ELSE Returned("trackPluginCompleted", args, <<metric, event>>,
                      r2 = "throw", Propagates(r2 = "throw"))

\* TelemetryClient.trackPluginCompleted(durationMs, outcome, warningCount = 0);
\* r1 is what trackEvent does, r2 what trackMetric does.
trackPluginCompleted(durationMs, outcome, count, r1, r2) ==
    LET n == IF count = undefined THEN 0 ELSE Get(count)
        event == [op |-> "trackEvent", name |-> Completed,
                  properties |-> [outcome |-> outcome, warningCount |-> String(n)],
                  measurements |-> [durationMs |-> durationMs],
                  context |-> _getContextProperties]
        metric == [op |-> "trackMetric", name |-> "plugin.duration",
                   value |-> durationMs, properties |-> [outcome |-> outcome],
                   context |-> _getContextProperties]
        args == [durationMs |-> durationMs, outcome |-> outcome, warningCount |-> count]
    IN  IF Inactive
        THEN Returned("trackPluginCompleted", args, <<>>, FALSE, FALSE)
        ELSE IF r1 = "throw"
        THEN Returned("trackPluginCompleted", args, <<event>>, TRUE, Propagates(TRUE))
        ELSE Returned("trackPluginCompleted", args, <<event, metric>>,
                      r2 = "throw", Propagates(r2 = "throw"))

\* The mutation of ErrorMessageOf that always takes String(error).
ErrorMessageOfString(error) == error.text

\* error instanceof Error ? error.message : String(error)
ErrorMessageOf(error) == IF error.isError THEN Get(error.message) ELSE error.text

\* The mutation of ErrorProperties that sends the message as it is.
ErrorPropertiesRaw(error, durationMs) ==
    [errorType |-> getErrorType(error),
     errorMessage |-> ErrorMessageOf(error),
     durationMs |-> String(durationMs)]

\* The properties of an Error event.
ErrorProperties(error, durationMs) ==
    [errorType |-> getErrorType(error),
     errorMessage |-> sanitizeErrorMessage(ErrorMessageOf(error)),
     durationMs |-> String(durationMs)]

\* TelemetryClient.trackPluginError(error, durationMs)
trackPluginError(error, durationMs, r) ==
    IF Inactive
    THEN Returned("trackPluginError", [error |-> error, durationMs |-> durationMs],
                  <<>>, FALSE, FALSE)
    ELSE Returned("trackPluginError", [error |-> error, durationMs |-> durationMs],
                  <<TrackEvent(Error, ErrorProperties(error, durationMs))>>,
                  r = "throw", Propagates(r = "throw"))

\* The properties of a Warning event.
WarningProperties(category, msg) ==
    [category |-> truncateString(category, 64), message |-> sanitizeErrorMessage(msg)]

\* TelemetryClient.trackPluginWarning(category, message)
trackPluginWarning(category, msg, r) ==
    IF Inactive
    THEN Returned("trackPluginWarning", [category |-> category, message |-> msg],
                  <<>>, FALSE, FALSE)
    ELSE Returned("trackPluginWarning", [category |-> category, message |-> msg],
                  <<TrackEvent(Warning, WarningProperties(category, msg))>>,
                  r = "throw", Propagates(r = "throw"))

\* The mutation of FlushExecutor that never starts the timer.
FlushExecutorNoTimer(r) ==
    CASE r = "throw" ->
           [state |-> IF Propagates(TRUE) THEN "rejected" ELSE "resolved",
            by |-> "catch", timer |-> "none", callback |-> "none"]
      [] r = "ok" ->
           [state |-> "pending", by |-> "none", timer |-> "none", callback |-> "held"]
      [] r = "callbackNow" ->
           [state |-> "resolved", by |-> "callback", timer |-> "none",
            callback |-> "called"]

\* The promise flush() awaits on an active client: this._client.flush({callback})
\* and then setTimeout(resolve, 2000); r is what the sink's flush does.
FlushExecutor(r) ==
    CASE r = "throw" ->
           [state |-> IF Propagates(TRUE) THEN "rejected" ELSE "resolved",
            by |-> "catch", timer |-> "none", callback |-> "none"]
      [] r = "ok" ->
           [state |-> "pending", by |-> "none", timer |-> "armed", callback |-> "held"]
      [] r = "callbackNow" ->
           [state |-> "resolved", by |-> "callback", timer |-> "armed",
            callback |-> "called"]

\* TelemetryClient.flush(), up to the point where it returns its promise.
flush(r) ==
    IF Inactive
    THEN /\ promises' = Append(promises, [state |-> "resolved", by |-> "inactive",
                                          timer |-> "none", callback |-> "none"])
         /\ Returned("flush", <<>>, <<>>, FALSE, FALSE)
    ELSE /\ promises' = Append(promises, FlushExecutor(r))
         /\ Returned("flush", <<>>, <<[op |-> "flush"]>>, r = "throw", FALSE)

\* The sink invokes the callback it was given by the i-th flush().
SinkCallsBack(i) ==
    /\ promises[i].callback = "held"
    /\ promises' = [promises EXCEPT ![i] =
                      IF @.state = "pending"
                      THEN [@ EXCEPT !.state = "resolved", !.by = "callback",
                                     !.callback = "called"]
                      ELSE [@ EXCEPT !.callback = "called"]]

\* The 2-second timer of the i-th flush() fires.
TimerFires(i) ==
    /\ promises[i].timer = "armed"
    /\ promises' = [promises EXCEPT ![i] =
                      IF @.state = "pending"
                      THEN [@ EXCEPT !.state = "resolved", !.by = "timer",
                                     !.timer = "fired"]
                      ELSE [@ EXCEPT !.timer = "fired"]]

---------------------------------------------------------------------------
(* The environment and a caller that uses one client freely. *)

EmptyEnv == [n \in EnvNames |-> undefined]

\* The values an opt-out variable is given.
OptOutValues ==
    {<<"T", "R", "U", "E">>}

\* The values variable n is set to; undefined deletes it.
EnvValues(n) ==
    {undefined} \cup
        IF n = CONNECTION_STRING_VAR
        THEN {Some(InstrumentationKeyMarker \o <<"k">>), Some(<<"k", "e", "y">>)}
        ELSE {Some(s) : s \in OptOutValues}

\* The environment the process starts with.
InitEnvs ==
    {EmptyEnv,
     [EmptyEnv EXCEPT ![CONNECTION_STRING_VAR] = Some(<<"x", ";">> \o IngestionEndpointMarker \o <<"u">>)]}

NoCall == [method |-> "none", args |-> <<>>, sinkThrew |-> FALSE, threw |-> FALSE]

NoError == Thrown(FALSE, "none", undefined, <<>>)

NoBody == [warnings |-> 0, throws |-> "never", error |-> NoError]

\* Nothing has been constructed or called yet.
Idle ==
    /\ envChanges = 0
    /\ constructed = FALSE
    /\ optedOut = FALSE
    /\ _enabled = FALSE
    /\ _client = FALSE
    /\ _context = [sessionId |-> 0, pluginName |-> "", pluginVersion |-> ""]
    /\ sessionIds = 0
    /\ sinkUsed = FALSE
    /\ sunk = <<>>
    /\ promises = <<>>
    /\ lastCall = NoCall
    /\ nCalls = 0
    /\ gateResult = undefined
    /\ gotContext = undefined
    /\ pc = "idle"
    /\ runs = 0
    /\ body = NoBody
    /\ warningCount = 0
    /\ warningLines = 0
    /\ hookTimer = FALSE
    /\ thrown = NoError
    /\ clientCalls = <<>>
    /\ hookResult = [state |-> "none"]
    /\ utilCall = "none"
    /\ sanitized = undefined
    /\ output = undefined

\* No function of utils is given a string.
NoText == message = <<>> /\ maxLength = 0

\* No compiled output, and the build script has not run.
NoBuild ==
    /\ lib = [exists |-> FALSE, files |-> <<>>]
    /\ buildEnv = undefined
    /\ script = "none"
    /\ jsFiles = <<>>
    /\ updatedCount = 0

Init == env \in InitEnvs /\ Idle /\ NoText /\ NoBuild

\* process.env[n] = v, or delete process.env[n]
SetEnv ==
    /\ envChanges < MaxEnvChanges
    /\ \E n \in EnvNames : \E v \in EnvValues(n) :
         /\ env[n] # v
         /\ env' = [env EXCEPT ![n] = v]
    /\ envChanges' = envChanges + 1
    /\ UNCHANGED <<clientVars, sinkVars, callerVars, utilVars, accessorVars, injectVars, pluginVars>>

Durations == {1500}

\* Thrown values: new Error('/a'), new TypeError('x') and the string 'a@b.c'.
Errors ==
    {Thrown(TRUE, "Error", Some(<<"/", "a">>), <<"E", "r", "r", "o", "r", ":", " ", "/", "a">>),
     Thrown(TRUE, "TypeError", Some(<<"x">>),
            <<"T", "y", "p", "e", "E", "r", "r", "o", "r", ":", " ", "x">>),
     Thrown(FALSE, "String", undefined, <<"a", "@", "b", ".", "c">>)}

\* The category and the message of a warning.
Categories == {<<"r", "u", "l", "e">>}

WarningMessages == {<<"/", "a">>}

New ==
    /\ ~constructed
    /\ \E config \in Configs : \E r \in SetupOutcomes : Construct(config, r)
    /\ UNCHANGED <<envVars, promises, nCalls, utilVars, accessorVars, injectVars, pluginVars>>

CallInstalled ==
    /\ constructed /\ nCalls < MaxCalls
    /\ \E r \in SinkOutcomes : trackPluginInstalled(r)
    /\ nCalls' = nCalls + 1
    /\ UNCHANGED <<envVars, clientVars, promises, utilVars, accessorVars, injectVars, pluginVars>>

CallStarted ==
    /\ constructed /\ nCalls < MaxCalls
    /\ \E r \in SinkOutcomes : trackPluginStarted(r)
    /\ nCalls' = nCalls + 1
    /\ UNCHANGED <<envVars, clientVars, promises, utilVars, accessorVars, injectVars, pluginVars>>

CallCompleted ==
    /\ constructed /\ nCalls < MaxCalls
    /\ \E d \in Durations : \E o \in PluginOutcome : \E c \in {undefined, Some(2)} :
         \E r1 \in SinkOutcomes : \E r2 \in SinkOutcomes :
            trackPluginCompleted(d, o, c, r1, r2)
    /\ nCalls' = nCalls + 1
    /\ UNCHANGED <<envVars, clientVars, promises, utilVars, accessorVars, injectVars, pluginVars>>

CallError ==
    /\ constructed /\ nCalls < MaxCalls
    /\ \E e \in Errors : \E d \in Durations : \E r \in SinkOutcomes :
         trackPluginError(e, d, r)
    /\ nCalls' = nCalls + 1
    /\ UNCHANGED <<envVars, clientVars, promises, utilVars, accessorVars, injectVars, pluginVars>>

CallWarning ==
    /\ constructed /\ nCalls < MaxCalls
    /\ \E c \in Categories : \E w \in WarningMessages : \E r \in SinkOutcomes :
         trackPluginWarning(c, w, r)
    /\ nCalls' = nCalls + 1
    /\ UNCHANGED <<envVars, clientVars, promises, utilVars, accessorVars, injectVars, pluginVars>>

CallFlush ==
    /\ constructed /\ nCalls < MaxCalls /\ Len(promises) < MaxFlushes
    /\ \E r \in FlushOutcomes : flush(r)
    /\ nCalls' = nCalls + 1
    /\ UNCHANGED <<envVars, clientVars, utilVars, accessorVars, injectVars, pluginVars>>

SinkAnswers ==
    /\ \E i \in 1..Len(promises) : SinkCallsBack(i)
    /\ UNCHANGED <<envVars, clientVars, sinkUsed, sunk, callerVars, utilVars, accessorVars, injectVars, pluginVars>>

Timeout ==
    /\ \E i \in 1..Len(promises) : TimerFires(i)
    /\ UNCHANGED <<envVars, clientVars, sinkUsed, sunk, callerVars, utilVars, accessorVars, injectVars, pluginVars>>

Next ==
    \/ SetEnv
    \/ New
    \/ CallInstalled
    \/ CallStarted
    \/ CallCompleted
    \/ CallError
    \/ CallWarning
    \/ CallFlush
    \/ SinkAnswers
    \/ Timeout

Spec == Init /\ [][Next]_vars

\* The event loop runs every timer that is armed.
FairSpec == Spec /\ WF_vars(Timeout)

---------------------------------------------------------------------------
(* The caller also reads the context and assigns to the object it got. *)

\* context = client.getContext()
CallGetContext ==
    /\ constructed
    /\ gotContext # Some(getContext)
    /\ gotContext' = Some(getContext)
    /\ UNCHANGED <<envVars, clientVars, sinkVars, callerVars, utilVars, injectVars, pluginVars>>

\* The fields of the object the caller assigns to.
AssignedFields == {"sessionId", "pluginName"}

\* context.sessionId = 0, context.pluginName = 'tampered'
Assigned(context, field) ==
    IF field = "sessionId" THEN [context EXCEPT !.sessionId = 0]
    ELSE [context EXCEPT !.pluginName = "tampered"]

\* The caller assigns to a field of the object it got: an assignment to the
\* client's own object is an assignment to _context.
AssignToContext ==
    /\ gotContext # undefined
    /\ \E a \in AssignedFields :
         LET context == Get(gotContext)
             value == Assigned(context.value, a)
         IN  /\ value # context.value
             /\ gotContext' = Some([context EXCEPT !.value = value, !.written = TRUE])
             /\ _context' = IF context.shared THEN value ELSE _context
    /\ UNCHANGED <<envVars, constructed, optedOut, _enabled, _client, sessionIds,
                   sinkVars, callerVars, utilVars, injectVars, pluginVars>>

InitContext == Init

NextContext ==
    \/ New
    \/ CallInstalled
    \/ CallStarted
    \/ CallCompleted
    \/ CallError
    \/ CallWarning
    \/ CallFlush
    \/ CallGetContext
    \/ AssignToContext

SpecContext == InitContext /\ [][NextContext]_vars

---------------------------------------------------------------------------
(* The stylelint plugin's run hook (StylelintPlugin.apply). *)

\* What a task body throws: an Error instance or a value that is no Error.
BodyErrors ==
    {Thrown(TRUE, "Error", Some(<<"/", "a">>), <<"E", "r", "r", "o", "r", ":", " ", "/", "a">>),
     Thrown(FALSE, "String", undefined, <<"a", "@", "b", ".", "c">>)}

\* What one run's task body does: how many warnings stylelint reports, and
\* where the body throws: before the lint (reading stylelint's package.json,
\* writing to the terminal), in the lint (stylelint.lint rejects), or while
\* reporting its last warning (writeWarningLine throws).
Bodies ==
    [warnings : 0..MaxWarnings, throws : {"never"}, error : {NoError}]
      \cup [warnings : {0}, throws : {"beforeLint", "lint"}, error : BodyErrors]
      \cup [warnings : 1..MaxWarnings, throws : {"report"}, error : BodyErrors]

\* A warning of stylelint's result: its rule and its text.
StylelintWarning == [rule |-> Some(<<"r", "u", "l", "e">>), text |-> <<"/", "a">>]

\* 'unknown'
Unknown == <<"u", "n", "k", "n", "o", "w", "n">>

\* What a call on the client throws when it does not swallow a sink error.
SinkError == Thrown(TRUE, "SinkError", Some(<<>>), <<"S", "i", "n", "k", "E", "r", "r", "o", "r">>)

\* getPackageVersion(buildFolderPath)
getPackageVersion(readable) == IF readable THEN "1.0.0" ELSE "0.0.0-unknown"

\* How the hook's promise settles once the finally block is done.
Settled(e) ==
    IF e = NoError THEN [state |-> "resolved"] ELSE [state |-> "rejected", error |-> e]

Called(call) == clientCalls' = Append(clientCalls, call)

\* The hook is invoked: const startTime = Date.now(); let warningCount = 0;
RunHook ==
    /\ pc = "idle" /\ runs < MaxRuns
    /\ runs' = runs + 1
    /\ \E b \in Bodies : body' = b
    /\ warningCount' = 0
    /\ warningLines' = 0
    /\ thrown' = NoError
    /\ clientCalls' = <<>>
    /\ hookResult' = [state |-> "none"]
    /\ pc' = "telemetry"
    /\ UNCHANGED <<envVars, clientVars, sinkVars, callerVars, utilVars, accessorVars, injectVars, hookTimer>>

\* if (!this._telemetry) this._telemetry = new TelemetryClient({...})
HookConstructs ==
    /\ pc = "telemetry" /\ ~constructed
    /\ \E readable \in BOOLEAN : \E r \in SetupOutcomes :
         Construct([pluginName |-> PACKAGE_NAME,
                    pluginVersion |-> getPackageVersion(readable),
                    connectionString |-> undefined], r)
    /\ IF lastCall'.threw
       THEN pc' = "idle" /\ hookResult' = Settled(SinkError)
       ELSE pc' = "started" /\ UNCHANGED hookResult
    /\ UNCHANGED <<envVars, promises, nCalls, utilVars, accessorVars, injectVars, runs, body, warningCount, warningLines,
                   hookTimer, thrown, clientCalls>>

\* this._telemetry is already set: the client of an earlier run is used again.
HookReuses ==
    /\ pc = "telemetry" /\ constructed
    /\ pc' = "started"
    /\ UNCHANGED <<envVars, clientVars, sinkVars, callerVars, utilVars, accessorVars, injectVars, runs, body,
                   warningCount, warningLines, hookTimer, thrown, clientCalls, hookResult>>

\* this._telemetry.trackPluginStarted(), before the try block
HookTracksStarted ==
    /\ pc = "started"
    /\ \E r \in SinkOutcomes : trackPluginStarted(r)
    /\ Called([method |-> "trackPluginStarted"])
    /\ IF lastCall'.threw
       THEN pc' = "idle" /\ hookResult' = Settled(SinkError)
       ELSE pc' = "body" /\ UNCHANGED hookResult
    /\ UNCHANGED <<envVars, clientVars, promises, nCalls, utilVars, accessorVars, injectVars, runs, body,
                   warningCount, warningLines, hookTimer, thrown>>

\* The try block up to await stylelint.lint(...)
HookBody ==
    /\ pc = "body"
    /\ IF body.throws = "beforeLint"
       THEN pc' = "catch" /\ thrown' = body.error
       ELSE pc' = "lint" /\ UNCHANGED thrown
    /\ UNCHANGED <<envVars, clientVars, sinkVars, callerVars, utilVars, accessorVars, injectVars, runs, body,
                   warningCount, warningLines, hookTimer, clientCalls, hookResult>>

\* stylelint.lint(...) settles.
LintSettles ==
    /\ pc = "lint"
    /\ IF body.throws = "lint"
       THEN pc' = "catch" /\ thrown' = body.error
       ELSE /\ pc' = IF body.warnings > 0 THEN "report" ELSE "complete"
            /\ UNCHANGED thrown
    /\ UNCHANGED <<envVars, clientVars, sinkVars, callerVars, utilVars, accessorVars, injectVars, runs, body,
                   warningCount, warningLines, hookTimer, clientCalls, hookResult>>

\* One round of the loop over the warnings: warningCount++, writeWarningLine,
\* this._telemetry.trackPluginWarning(...)
HookReports ==
    /\ pc = "report"
    /\ warningCount' = warningCount + 1
    /\ IF body.throws = "report" /\ warningCount' = body.warnings
       THEN /\ pc' = "catch" /\ thrown' = body.error
            /\ UNCHANGED <<sinkVars, lastCall, clientCalls, warningLines>>
       ELSE /\ warningLines' = warningLines + 1
            /\ \E r \in SinkOutcomes :
                 trackPluginWarning(Get(OrElse(StylelintWarning.rule, Some(Unknown))),
                                    StylelintWarningMessage(StylelintWarning.text), r)
            /\ Called([method |-> "trackPluginWarning"])
            /\ UNCHANGED promises
            /\ IF lastCall'.threw
               THEN pc' = "catch" /\ thrown' = SinkError
               ELSE /\ pc' = IF warningCount' = body.warnings THEN "complete" ELSE "report"
                    /\ UNCHANGED thrown
    /\ UNCHANGED <<envVars, clientVars, nCalls, utilVars, accessorVars, injectVars, runs, body, hookTimer,
                   hookResult>>

\* The mutation of HookCompletes that reports success whatever the count.
HookCompletesAsSuccess ==
    /\ pc = "complete"
    /\ LET outcome == "success"
       IN  /\ \E d \in Durations : \E r1 \in SinkOutcomes : \E r2 \in SinkOutcomes :
                trackPluginCompleted(d, outcome, Some(warningCount), r1, r2)
           /\ Called([method |-> "trackPluginCompleted", outcome |-> outcome,
                      warningCount |-> warningCount])
    /\ IF lastCall'.threw
       THEN pc' = "catch" /\ thrown' = SinkError
       ELSE pc' = "finally" /\ UNCHANGED thrown
    /\ UNCHANGED <<envVars, clientVars, promises, nCalls, utilVars, accessorVars, injectVars, runs, body,
                   warningCount, warningLines, hookTimer, hookResult>>

\* The end of the try block:
\* this._telemetry.trackPluginCompleted(duration, outcome, warningCount)
HookCompletes ==
    /\ pc = "complete"
    /\ LET outcome == IF warningCount > 0 THEN "warning" ELSE "success"
       IN  /\ \E d \in Durations : \E r1 \in SinkOutcomes : \E r2 \in SinkOutcomes :
                trackPluginCompleted(d, outcome, Some(warningCount), r1, r2)
           /\ Called([method |-> "trackPluginCompleted", outcome |-> outcome,
                      warningCount |-> warningCount])
    /\ IF lastCall'.threw
       THEN pc' = "catch" /\ thrown' = SinkError
       ELSE pc' = "finally" /\ UNCHANGED thrown
    /\ UNCHANGED <<envVars, clientVars, promises, nCalls, utilVars, accessorVars, injectVars, runs, body,
                   warningCount, warningLines, hookTimer, hookResult>>

\* The mutation of HookCatches that records no error event.
HookCatchesSilently ==
    /\ pc = "catch"
    /\ pc' = "rethrow"
    /\ UNCHANGED <<envVars, clientVars, sinkVars, callerVars, utilVars, accessorVars, injectVars, runs, body,
                   warningCount, warningLines, hookTimer, thrown, clientCalls, hookResult>>

\* The catch block: this._telemetry.trackPluginError(error, duration)
HookCatches ==
    /\ pc = "catch"
    /\ \E d \in Durations : \E r \in SinkOutcomes : trackPluginError(thrown, d, r)
    /\ Called([method |-> "trackPluginError", error |-> thrown])
    /\ IF lastCall'.threw
       THEN pc' = "finally" /\ thrown' = SinkError
       ELSE pc' = "rethrow" /\ UNCHANGED thrown
    /\ UNCHANGED <<envVars, clientVars, promises, nCalls, utilVars, accessorVars, injectVars, runs, body,
                   warningCount, warningLines, hookTimer, hookResult>>

\* The mutation of HookRethrows that leaves the hook without the finally block.
HookRethrowsPastFinally ==
    /\ pc = "rethrow"
    /\ \E d \in Durations : \E r1 \in SinkOutcomes : \E r2 \in SinkOutcomes :
         trackPluginCompleted(d, "error", Some(warningCount), r1, r2)
    /\ Called([method |-> "trackPluginCompleted", outcome |-> "error",
               warningCount |-> warningCount])
    /\ pc' = "idle"
    /\ hookResult' = Settled(thrown)
    /\ UNCHANGED <<envVars, clientVars, promises, nCalls, utilVars, accessorVars, injectVars, runs, body,
                   warningCount, warningLines, hookTimer, thrown>>

\* The rest of the catch block:
\* this._telemetry.trackPluginCompleted(duration, PluginOutcome.Error, warningCount);
\* throw error;
HookRethrows ==
    /\ pc = "rethrow"
    /\ \E d \in Durations : \E r1 \in SinkOutcomes : \E r2 \in SinkOutcomes :
         trackPluginCompleted(d, "error", Some(warningCount), r1, r2)
    /\ Called([method |-> "trackPluginCompleted", outcome |-> "error",
               warningCount |-> warningCount])
    /\ pc' = "finally"
    /\ thrown' = IF lastCall'.threw THEN SinkError ELSE thrown
    /\ UNCHANGED <<envVars, clientVars, promises, nCalls, utilVars, accessorVars, injectVars, runs, body,
                   warningCount, warningLines, hookTimer, hookResult>>

\* The finally block up to its await:
\* Promise.race([this._telemetry.flush(), new Promise(r => setTimeout(r, 2000))])
HookFinally ==
    /\ pc = "finally"
    /\ \E r \in FlushOutcomes : flush(r)
    /\ Called([method |-> "flush"])
    /\ hookTimer' = TRUE
    /\ pc' = "race"
    /\ UNCHANGED <<envVars, clientVars, nCalls, utilVars, accessorVars, injectVars, runs, body, warningCount, warningLines,
                   thrown, hookResult>>

\* The race is won by the flush promise, whose rejection .catch() discards;
\* the hook's promise settles with what the try block left. The hook's timer
\* is no longer observed.
HookFlushSettles ==
    /\ pc = "race"
    /\ promises[Len(promises)].state # "pending"
    /\ hookResult' = Settled(thrown)
    /\ hookTimer' = FALSE
    /\ pc' = "idle"
    /\ UNCHANGED <<envVars, clientVars, sinkVars, callerVars, utilVars, accessorVars, injectVars, runs, body,
                   warningCount, warningLines, thrown, clientCalls>>

\* The race is won by the hook's own 2-second timer.
HookTimeout ==
    /\ pc = "race"
    /\ hookTimer
    /\ hookResult' = Settled(thrown)
    /\ hookTimer' = FALSE
    /\ pc' = "idle"
    /\ UNCHANGED <<envVars, clientVars, sinkVars, callerVars, utilVars, accessorVars, injectVars, runs, body,
                   warningCount, warningLines, thrown, clientCalls>>

\* The environment changes between two runs.
SetEnvBetweenRuns == pc = "idle" /\ SetEnv

InitPlugin == Init

NextPlugin ==
    \/ SetEnvBetweenRuns
    \/ RunHook
    \/ HookConstructs
    \/ HookReuses
    \/ HookTracksStarted
    \/ HookBody
    \/ LintSettles
    \/ HookReports
    \/ HookCompletes
    \/ HookCatches
    \/ HookRethrows
    \/ HookFinally
    \/ HookFlushSettles
    \/ HookTimeout
    \/ SinkAnswers
    \/ Timeout

SpecPlugin == InitPlugin /\ [][NextPlugin]_vars

---------------------------------------------------------------------------
(* Properties of the client. *)

TrackMethods ==
    {"trackPluginInstalled", "trackPluginStarted", "trackPluginCompleted",
     "trackPluginError", "trackPluginWarning"}

\* C1: a client constructed while an opt-out variable is active is disabled,
\* and whatever is called on it, nothing is ever done on the sink, no
\* 2-second timer is started, and no call throws or rejects.
C1_OptedOutClientIsInert ==
    (constructed /\ optedOut) =>
        /\ ~isEnabled
        /\ ~sinkUsed /\ sunk = <<>>
        /\ \A i \in 1..Len(promises) :
             promises[i].timer = "none" /\ promises[i].state = "resolved"
        /\ ~lastCall.threw

C1_Witness ==
    /\ constructed /\ optedOut
    /\ nCalls = MaxCalls
    /\ lastCall.method = "trackPluginCompleted"
    /\ Len(promises) = 1

\* C2: the constructor never throws, and it leaves the client enabled exactly
\* when no opt-out variable was active, the credential it resolved contains
\* one of the two markers, and setting up the sink did not throw.
C2_EnabledExactlyWhen ==
    lastCall.method = "constructor" =>
        /\ ~lastCall.threw
        /\ constructed
        /\ isEnabled <=>
             /\ ~optedOut
             /\ lastCall.validated # undefined
             /\ \/ includes(Get(lastCall.validated), InstrumentationKeyMarker)
                \/ includes(Get(lastCall.validated), IngestionEndpointMarker)
             /\ ~lastCall.sinkThrew

C2_Witness ==
    /\ lastCall.method = "constructor"
    /\ lastCall.sinkThrew
    /\ ~isEnabled /\ ~optedOut
    /\ isValidConnectionString(Get(lastCall.validated))

\* C3: once the constructor has returned, no call, sink exception or change
\* of the environment changes what isEnabled() returns.
C3_EnabledIsFixed == [][constructed => (isEnabled' = isEnabled)]_vars

C3_Witness ==
    /\ constructed /\ isEnabled
    /\ isTelemetryDisabled(env)
    /\ env[CONNECTION_STRING_VAR] = undefined
    /\ lastCall.method \in TrackMethods /\ lastCall.sinkThrew

\* C4: on an enabled client an exception of the sink never reaches the caller:
\* every track* call returns normally and no flush promise rejects.
C4_SinkErrorsAreSwallowed ==
    /\ lastCall.method \in TrackMethods \cup {"flush"} => ~lastCall.threw
    /\ \A i \in 1..Len(promises) : promises[i].state # "rejected"

C4_Witness ==
    /\ isEnabled
    /\ lastCall.method = "flush" /\ lastCall.sinkThrew /\ ~lastCall.threw
    /\ promises[Len(promises)].state = "resolved"

\* What every flush() of this client has done so far, when the sink's flush
\* did not throw: the sink was asked, the timer was started, and the promise
\* is pending exactly until the first of callback and timer fires.
FlushRaces(p) ==
    /\ p.timer # "none" /\ p.callback # "none"
    /\ p.state = "pending" <=> (p.timer = "armed" /\ p.callback = "held")
    /\ p.state # "pending" =>
         /\ p.state = "resolved"
         /\ p.by \in {"callback", "timer"}
         /\ p.by = "callback" => p.callback = "called"
         /\ p.by = "timer" => p.timer = "fired"

\* C5 as stated: every flush() on an enabled client starts the 2-second timer
\* and resolves at the first of the sink's callback and the timer.
C5_AlwaysStartsTimer ==
    \A i \in 1..Len(promises) : promises[i].by # "inactive" => FlushRaces(promises[i])

C5_Safety ==
    /\ (lastCall.method = "flush" /\ ~Inactive) => sunk = <<[op |-> "flush"]>>
    /\ \A i \in 1..Len(promises) :
         promises[i].by # "inactive" =>
            IF promises[i].by = "catch"
            THEN /\ promises[i].state = "resolved"
                 /\ promises[i].timer = "none" /\ promises[i].callback = "none"
            ELSE FlushRaces(promises[i])

\* C5, amended: flush() on an enabled client asks the sink to flush; unless
\* that request throws (then no timer is started and the promise resolves at
\* once), it starts the 2-second timer and resolves at the first of the sink's
\* callback and the timer; in every case the promise is eventually resolved,
\* even when the sink never calls back.
C5_FlushIsBounded ==
    /\ []C5_Safety
    /\ \A i \in 1..MaxFlushes :
         (Len(promises) >= i) ~> (Len(promises) >= i /\ promises[i].state = "resolved")

C5_Witness ==
    /\ isEnabled
    /\ Len(promises) = 1
    /\ promises[1].state = "resolved" /\ promises[1].by = "timer"
    /\ promises[1].callback = "held"

\* The credential the claim names, with "supplied" and "set" read as defined.
SuppliedFirst(config, e) ==
    IF config.connectionString # undefined THEN Get(config.connectionString)
    ELSE IF e[CONNECTION_STRING_VAR] # undefined THEN Get(e[CONNECTION_STRING_VAR])
    ELSE DEFAULT_CONNECTION_STRING

\* The same, with "supplied" and "set" read as non-empty.
NonEmptyFirst(config, e) ==
    IF config.connectionString \notin {undefined, Some(<<>>)}
    THEN Get(config.connectionString)
    ELSE IF e[CONNECTION_STRING_VAR] \notin {undefined, Some(<<>>)}
    THEN Get(e[CONNECTION_STRING_VAR])
    ELSE DEFAULT_CONNECTION_STRING

\* C10 as stated: the constructor validates the config's connectionString when
\* one is supplied, otherwise the environment variable's when it is set,
\* otherwise the default.
C10_SuppliedWins ==
    [][(~constructed /\ constructed' /\ lastCall'.validated # undefined) =>
          lastCall'.validated = Some(SuppliedFirst(lastCall'.config, env))]_vars

\* C10, amended: the constructor validates the config's connectionString when
\* one is supplied and not empty, otherwise the environment variable's when it
\* is set and not empty, otherwise the default; a non-empty value of higher
\* priority is used even when it is invalid.
C10_NonEmptyWins ==
    [][(~constructed /\ constructed' /\ lastCall'.validated # undefined) =>
          lastCall'.validated = Some(NonEmptyFirst(lastCall'.config, env))]_vars

C10_Witness ==
    /\ lastCall.method = "constructor"
    /\ envChanges = 0
    /\ env[CONNECTION_STRING_VAR] # undefined
    /\ isValidConnectionString(Get(env[CONNECTION_STRING_VAR]))
    /\ lastCall.config.connectionString # undefined
    /\ Get(lastCall.config.connectionString) # <<>>
    /\ ~isValidConnectionString(Get(lastCall.config.connectionString))
    /\ lastCall.validated = lastCall.config.connectionString
    /\ ~isEnabled

---------------------------------------------------------------------------
(* The opt-out gate on its own, over every setting of its four variables. *)

GateValues ==
    {<<"1">>, <<"t", "r", "u", "e">>, <<"T", "R", "U", "E">>, <<"T", "r", "u", "e">>,
     <<"0">>, <<"y", "e", "s">>, <<>>, <<"f", "a", "l", "s", "e">>,
     <<"t", "r", "u", "e", "1">>}

GateEnvs ==
    {e \in [EnvNames -> {undefined} \cup {Some(s) : s \in GateValues}] :
        e[CONNECTION_STRING_VAR] = undefined}

InitGate == env \in GateEnvs /\ Idle /\ NoText /\ NoBuild

\* A direct call of isTelemetryDisabled(), as the install script makes it.
CallGate ==
    /\ gateResult = undefined
    /\ gateResult' = Some(isTelemetryDisabled(env))
    /\ UNCHANGED <<envVars, clientVars, sinkVars, callerVars, textVars, accessorVars, injectVars, pluginVars>>

NextGate == CallGate

SpecGate == InitGate /\ [][NextGate]_vars

\* s equals "true" when case is ignored.
IsTrueAnyCase(s) ==
    /\ Len(s) = 4
    /\ s[1] \in {"t", "T"} /\ s[2] \in {"r", "R"}
    /\ s[3] \in {"u", "U"} /\ s[4] \in {"e", "E"}

OptOutNames == {"HEFT_TELEMETRY_DISABLED", "DISABLE_TELEMETRY", "DO_NOT_TRACK", "TELEMETRY_DISABLED"}

\* C9: isTelemetryDisabled() returns true exactly when one of the four opt-out
\* variables is "1" or equals "true" when case is ignored, false when each is
\* unset or holds anything else, and it changes no environment variable.
C9_GateIsExact ==
    /\ [](gateResult # undefined =>
            (Get(gateResult) <=>
               \E n \in OptOutNames :
                  /\ env[n] # undefined
                  /\ Get(env[n]) = <<"1">> \/ IsTrueAnyCase(Get(env[n]))))
    /\ [][gateResult' # gateResult => env' = env]_vars

C9_Witness ==
    /\ gateResult = Some(TRUE)
    /\ env["TELEMETRY_DISABLED"] = Some(<<"T", "r", "u", "e">>)
    /\ env["HEFT_TELEMETRY_DISABLED"] = Some(<<"0">>)
    /\ env["DISABLE_TELEMETRY"] = Some(<<>>)
    /\ env["DO_NOT_TRACK"] = undefined

---------------------------------------------------------------------------
(* The sanitizer and truncateString on their own, over messages made of     *)
(* sensitive fragments and plain text.                                      *)

\* sensitive fragments a message holds
MaxParts == 2

HttpsUrl ==
    <<"h", "t", "t", "p", "s", ":", "/", "/", "a", "p", "i", ".", "e", "x", "a", "m",
      "p", "l", "e", ".", "c", "o", "m", "/", "d", "a", "t", "a">>

HttpUrl ==
    <<"h", "t", "t", "p", ":", "/", "/", "l", "o", "c", "a", "l", "h", "o", "s", "t",
      ":", "8", "0", "8", "0", "/", "a", "/", "b", "?", "x", "=", "1">>

EmailAddress ==
    <<"u", "s", "e", "r", "@", "e", "x", "a", "m", "p", "l", "e", ".", "c", "o", "m">>

IpAddress ==
    <<"1", "9", "2", ".", "1", "6", "8", ".", "1", ".", "1">>

Uuid ==
    <<"1", "2", "3", "e", "4", "5", "6", "7", "-", "e", "8", "9", "b", "-", "1", "2",
      "d", "3", "-", "a", "4", "5", "6", "-", "4", "2", "6", "6", "1", "4", "1", "7",
      "4", "0", "0", "0">>

UnixPath ==
    <<"/", "h", "o", "m", "e", "/", "u", "s", "e", "r", "/", "p", "r", "o", "j", "e",
      "c", "t", "/", "s", "r", "c", "/", "f", "i", "l", "e", ".", "t", "s">>

WindowsPath ==
    <<"C", ":", "\\", "U", "s", "e", "r", "s", "\\", "j", "o", "h", "n", "\\", "f",
      "i", "l", "e", ".", "t", "x", "t">>

Urls == {HttpsUrl, HttpUrl}

Paths == {UnixPath, WindowsPath}

\* Well-formed sensitive texts, each with its kind.
Sensitive ==
    [kind : {"url"}, text : Urls]
      \cup [kind : {"email"}, text : {EmailAddress}]
      \cup [kind : {"ip"}, text : {IpAddress}]
      \cup [kind : {"uuid"}, text : {Uuid}]
      \cup [kind : {"path"}, text : Paths]

\* The redaction token of a kind.
Token(kind) ==
    CASE kind = "url" -> UrlToken
      [] kind = "email" -> EmailToken
      [] kind = "ip" -> IpToken
      [] kind = "uuid" -> UuidToken
      [] kind = "path" -> PathToken

\* The text a message starts with.
LeadIns ==
    {<<"E", "r", "r", "o", "r", " ", "a", "t", " ">>,
     <<"s", "e", "r", "v", "e", "r", "_">>}

\* The text between two fragments.
Separators == {<<" ">>, <<" ", "a", "n", "d", " ">>}

RECURSIVE Listings(_)
\* n sensitive fragments, one after the other, with a separator between them.
Listings(n) ==
    IF n = 1 THEN {f.text : f \in Sensitive}
    ELSE {l \o sep \o f.text : l \in Listings(n - 1), sep \in Separators, f \in Sensitive}

\* The example of the sanitizer's documentation.
ExampleMessage ==
    <<"E", "r", "r", "o", "r", " ", "a", "t", " ", "/", "h", "o", "m", "e", "/", "u",
      "s", "e", "r", "/", "p", "r", "o", "j", "e", "c", "t", "/", "s", "r", "c", "/",
      "f", "i", "l", "e", ".", "t", "s", ",", " ", "c", "o", "n", "t", "a", "c", "t",
      " ", "u", "s", "e", "r", "@", "e", "x", "a", "m", "p", "l", "e", ".", "c", "o",
      "m", ",", " ", "s", "e", "e", " ", "h", "t", "t", "p", "s", ":", "/", "/", "a",
      "p", "i", ".", "e", "x", "a", "m", "p", "l", "e", ".", "c", "o", "m", "/", "d",
      "a", "t", "a">>

\* n characters of a ruler line.
Ruler(n) == [i \in 1..n |-> "="]

\* Messages around the limit of 512 characters, before and after substitution.
LongMessages ==
    {Ruler(n) : n \in {511, 512, 513, 600}}
      \cup {HttpsUrl \o <<" ">> \o Ruler(n) : n \in 505..507}
      \cup {UnixPath \o <<" ">> \o Ruler(n) : n \in {480, 520}}

Messages ==
    {<<>>, ExampleMessage}
      \cup {lead \o l : lead \in LeadIns, l \in UNION {Listings(n) : n \in 1..MaxParts}}
      \cup LongMessages

\* The maxLength values truncateString is given.
MaxLengths == {0, 1, 2, 3, 4, 8, 64, 512, 1024}

InitText == env = EmptyEnv /\ Idle /\ NoBuild /\ message \in Messages /\ maxLength = 0

\* sanitizeErrorMessage(message)
CallSanitize ==
    /\ utilCall = "none"
    /\ utilCall' = "sanitizeErrorMessage"
    /\ sanitized' = Some(Substituted(message, Len(SANITIZE_PATTERNS)))
    /\ output' = Some(sanitizeErrorMessage(message))
    /\ UNCHANGED <<envVars, clientVars, sinkVars, callerVars, gateResult, accessorVars, injectVars, message,
                   maxLength, pluginVars>>

\* truncateString(message, maxLength)
CallTruncate ==
    /\ utilCall = "none"
    /\ utilCall' = "truncateString"
    /\ \E n \in MaxLengths :
         /\ maxLength' = n
         /\ output' = Some(truncateString(message, n))
    /\ UNCHANGED <<envVars, clientVars, sinkVars, callerVars, gateResult, accessorVars, injectVars, message,
                   sanitized, pluginVars>>

NextText == CallSanitize \/ CallTruncate

SpecText == InitText /\ [][NextText]_vars

---------------------------------------------------------------------------
(* The first error or warning reported on a client, over thrown values,     *)
(* categories and messages of every shape.                                  *)

\* new Error(ExampleMessage), a TypeError with a long message, a thrown string,
\* null, and a plain object with a message property.
ReportedErrors ==
    {Thrown(TRUE, "Error", Some(ExampleMessage),
            <<"E", "r", "r", "o", "r", ":", " ">> \o ExampleMessage),
     Thrown(TRUE, "TypeError", Some(EmailAddress \o <<" ">> \o Ruler(600)),
            <<"T", "y", "p", "e", "E", "r", "r", "o", "r", ":", " ">> \o EmailAddress \o <<" ">> \o Ruler(600)),
     Thrown(FALSE, "String", undefined,
            <<"o", "p", "e", "n", " ">> \o UnixPath),
     Thrown(FALSE, "null", undefined, <<"n", "u", "l", "l">>),
     Thrown(FALSE, "Object", Some(UnixPath),
            <<"[", "o", "b", "j", "e", "c", "t", " ", "O", "b", "j", "e", "c", "t", "]">>)}

\* Categories of 4, 64, 65 and 100 characters.
ReportedCategories ==
    {<<"r", "u", "l", "e">>} \cup {[i \in 1..n |-> "c"] : n \in {64, 65, 100}}

ReportedMessages ==
    {ExampleMessage, EmailAddress \o <<" ">> \o Ruler(600)}
      \cup {lead \o l : lead \in LeadIns, l \in Listings(1)}

\* The first call on the client is trackPluginError.
ReportsError ==
    /\ constructed /\ nCalls = 0
    /\ \E e \in ReportedErrors : \E d \in Durations : \E r \in SinkOutcomes :
         trackPluginError(e, d, r)
    /\ nCalls' = nCalls + 1
    /\ UNCHANGED <<envVars, clientVars, promises, utilVars, accessorVars, injectVars, pluginVars>>

\* The first call on the client is trackPluginWarning.
ReportsWarning ==
    /\ constructed /\ nCalls = 0
    /\ \E c \in ReportedCategories : \E w \in ReportedMessages : \E r \in SinkOutcomes :
         trackPluginWarning(c, w, r)
    /\ nCalls' = nCalls + 1
    /\ UNCHANGED <<envVars, clientVars, promises, utilVars, accessorVars, injectVars, pluginVars>>

InitReports == Init

NextReports == New \/ ReportsError \/ ReportsWarning

SpecReports == InitReports /\ [][NextReports]_vars

---------------------------------------------------------------------------
(* scripts/inject-connection-string.js, run over the compiled output. *)

PLACEHOLDER ==
    <<"_", "_", "A", "P", "P", "_", "I", "N", "S", "I", "G", "H", "T", "S", "_", "C",
      "O", "N", "N", "E", "C", "T", "I", "O", "N", "_", "S", "T", "R", "I", "N", "G",
      "_", "_">>

\* The .js files of lib/: the compiled TelemetryClient with its default
\* credential, a file without any placeholder, and a file that holds the
\* script's placeholder twice.
CompiledFiles ==
    [client |-> <<"'">> \o DEFAULT_CONNECTION_STRING \o <<"'", ";">>,
     index |-> <<"e", "x", "p", "o", "r", "t", ";">>,
     other |-> PLACEHOLDER \o <<"+">> \o PLACEHOLDER]

\* The compiled outputs the script is run over; lib/ may not exist.
Libs ==
    {[exists |-> FALSE, files |-> <<>>]}
      \cup {[exists |-> TRUE, files |-> [f \in names |-> CompiledFiles[f]]] :
               names \in SUBSET DOMAIN CompiledFiles}

\* The values of APP_INSIGHTS_CONNECTION_STRING in the build's environment.
BuildEnvs ==
    {undefined, Some(<<>>), Some(<<"k", "e", "y">>), Some(InstrumentationKeyMarker \o <<"k">>)}

\* The string between the quotes of the compiled TelemetryClient.
CompiledDefault(content) == SubSeq(content, 2, Len(content) - 2)

\* content.replace(new RegExp(text, 'g'), by), from position i on
RECURSIVE replaceAll(_, _, _, _)
replaceAll(content, i, text, by) ==
    IF i > Len(content) THEN <<>>
    ELSE IF StartsAt(content, i, text)
    THEN by \o replaceAll(content, i + Len(text), text, by)
    ELSE <<content[i]>> \o replaceAll(content, i + 1, text, by)

\* findJsFiles(LIB_DIR): the files in the order the directory is read.
findJsFiles ==
    {order \in [1..Cardinality(DOMAIN lib.files) -> DOMAIN lib.files] :
        \A f \in DOMAIN lib.files : \E k \in DOMAIN order : order[k] = f}

\* main() up to the loop over the files.
Main ==
    /\ script = "none"
    /\ IF buildEnv = undefined \/ buildEnv = Some(<<>>)
       THEN script' = "returned" /\ UNCHANGED jsFiles
       ELSE IF ~lib.exists
       THEN script' = "exited" /\ UNCHANGED jsFiles
       ELSE script' = "files" /\ jsFiles' \in findJsFiles
    /\ UNCHANGED <<envVars, clientVars, sinkVars, callerVars, utilVars, accessorVars,
                   lib, buildEnv, updatedCount, pluginVars>>

\* One round of the loop: replaceInFile(file, connectionString)
ReplaceInFile ==
    /\ script = "files" /\ jsFiles # <<>>
    /\ IF includes(lib.files[Head(jsFiles)], PLACEHOLDER)
       THEN /\ lib' = [lib EXCEPT !.files[Head(jsFiles)] =
                         replaceAll(@, 1, PLACEHOLDER, Get(buildEnv))]
            /\ updatedCount' = updatedCount + 1
       ELSE UNCHANGED <<lib, updatedCount>>
    /\ jsFiles' = Tail(jsFiles)
    /\ UNCHANGED <<envVars, clientVars, sinkVars, callerVars, utilVars, accessorVars,
                   buildEnv, script, pluginVars>>

\* The end of main().
MainReturns ==
    /\ script = "files" /\ jsFiles = <<>>
    /\ script' = "returned"
    /\ UNCHANGED <<envVars, clientVars, sinkVars, callerVars, utilVars, accessorVars,
                   lib, buildEnv, jsFiles, updatedCount, pluginVars>>

InitInject ==
    /\ env = EmptyEnv /\ Idle /\ NoText
    /\ lib \in Libs
    /\ buildEnv \in BuildEnvs
    /\ script = "none"
    /\ jsFiles = <<>>
    /\ updatedCount = 0

NextInject == Main \/ ReplaceInFile \/ MainReturns

SpecInject == InitInject /\ [][NextInject]_vars

---------------------------------------------------------------------------
(* Properties of the sanitizer and of truncateString. *)

Ellipsis == <<".", ".", ".">>

\* C11 as stated: when a message contains a well-formed URL, email address,
\* IPv4 address, UUID or absolute path, the output of sanitizeErrorMessage
\* contains none of these texts and contains the token of each kind present.
C11_EveryKindIsRedacted ==
    utilCall = "sanitizeErrorMessage" =>
        \A f \in Sensitive :
            includes(message, f.text) =>
                /\ ~includes(Get(output), f.text)
                /\ includes(Get(output), Token(f.kind))

\* C12: the output of sanitizeErrorMessage is at most 512 characters long; when
\* the substituted string is longer than 512 characters the output is its
\* first 509 characters followed by "...", 512 characters in all, and
\* otherwise the output is the substituted string.
C12_OutputIsBounded ==
    utilCall = "sanitizeErrorMessage" =>
        /\ Len(Get(output)) <= 512
        /\ IF Len(Get(sanitized)) > 512
           THEN /\ Len(Get(output)) = 512
                /\ SubSeq(Get(output), 1, 509) = SubSeq(Get(sanitized), 1, 509)
                /\ SubSeq(Get(output), 510, 512) = Ellipsis
           ELSE output = sanitized

C12_Witness ==
    /\ utilCall = "sanitizeErrorMessage"
    /\ Len(Get(sanitized)) = 513
    /\ Len(message) > Len(Get(sanitized))
    /\ SubSeq(Get(output), 1, Len(UrlToken)) = UrlToken

\* C13 as stated: truncateString(str, maxLength) returns str when it is at
\* most maxLength long, and otherwise the first maxLength - 3 characters of
\* str followed by "...", a string of exactly maxLength characters.
C13_TruncatesToMaxLength ==
    utilCall = "truncateString" =>
        IF Len(message) <= maxLength
        THEN Get(output) = message
        ELSE /\ Len(Get(output)) = maxLength
             /\ \A i \in 1..(maxLength - 3) : Get(output)[i] = message[i]
             /\ \A i \in (maxLength - 2)..maxLength : i >= 1 => Get(output)[i] = "."

\* The number of places where text occurs in s.
Occurrences(s, text) == Cardinality({i \in 1..Len(s) : StartsAt(s, i, text)})

\* C18: every URL with path segments is replaced, up to the next whitespace,
\* by one [URL] token and no part of it by [PATH]: the substituted string
\* holds one [URL] for each URL of the message, one [PATH] for each path
\* outside a URL, and no scheme; the documented example yields [URL] once,
\* [EMAIL] once and none of "/home/user", "user@example.com", "https://".
C18_UrlsAreRedactedWhole ==
    utilCall = "sanitizeErrorMessage" =>
        /\ Occurrences(Get(sanitized), UrlToken) =
             Occurrences(message, HttpsUrl) + Occurrences(message, HttpUrl)
        /\ Occurrences(Get(sanitized), PathToken) =
             Occurrences(message, UnixPath) + Occurrences(message, WindowsPath)
        /\ ~includes(Get(sanitized), SubSeq(HttpUrl, 1, 7))
        /\ ~includes(Get(sanitized), SubSeq(HttpsUrl, 1, 8))
        /\ message = ExampleMessage =>
             /\ Occurrences(Get(output), UrlToken) = 1
             /\ Occurrences(Get(output), EmailToken) = 1
             /\ ~includes(Get(output), SubSeq(UnixPath, 1, 10))
             /\ ~includes(Get(output), EmailAddress)
             /\ ~includes(Get(output), SubSeq(HttpsUrl, 1, 8))

C18_Witness ==
    /\ utilCall = "sanitizeErrorMessage"
    /\ message = ExampleMessage
    /\ includes(Get(output), UrlToken) /\ includes(Get(output), PathToken)

---------------------------------------------------------------------------
(* Properties of the events handed to the sink. *)

\* Every event and metric the latest call handed to the sink carries the
\* properties of the given context.
SunkCarry(context) ==
    \A i \in 1..Len(sunk) :
        sunk[i].op \in {"trackEvent", "trackMetric"} =>
            sunk[i].context = [pluginName |-> context.pluginName,
                               pluginVersion |-> context.pluginVersion,
                               sessionId |-> context.sessionId]

\* C17: once the client is constructed no step changes its context, whatever
\* the caller calls or assigns to an object it got from getContext(); after
\* every step the events and metrics handed to the sink carry that context,
\* and an object got from getContext() and not assigned to since equals it.
C17_ContextIsReadOnly ==
    [][constructed =>
         /\ _context' = _context
         /\ SunkCarry(_context)'
         /\ \A context \in gotContext' : ~context.written => context.value = _context]_vars

\* The caller assigned to the object it got, and the client then sent an
\* event with the session id generated at construction.
C17_Witness ==
    /\ isEnabled
    /\ \E context \in gotContext :
         context.written /\ context.value.sessionId # _context.sessionId
    /\ lastCall.method = "trackPluginStarted"
    /\ Len(sunk) = 1
    /\ sunk[1].context.sessionId = sessionIds
    /\ sessionIds > 0


\* The events the latest call handed to the sink.
Events(name) == {i \in 1..Len(sunk) : sunk[i].op = "trackEvent" /\ sunk[i].name = name}

\* C14: every Warning event carries a category of at most 64 characters and
\* a message that is the sanitized form, at most 512 characters long, of the
\* caller's message; every Error event carries an errorMessage that is the
\* sanitized form, at most 512 characters long, of the error's message; the
\* caller's message never reaches the sink as it was passed.
C14_MessagesAreSanitized ==
    /\ \A i \in Events(Warning) :
         /\ Len(sunk[i].properties.category) <= 64
         /\ Len(sunk[i].properties.message) <= 512
         /\ sunk[i].properties.message = Sanitize(lastCall.args.message)
         /\ includes(lastCall.args.message, EmailAddress) =>
              ~includes(sunk[i].properties.message, EmailAddress)
    /\ \A i \in Events(Error) :
         /\ Len(sunk[i].properties.errorMessage) <= 512
         /\ sunk[i].properties.errorMessage =
              Sanitize(IF lastCall.args.error.isError
                       THEN Get(lastCall.args.error.message)
                       ELSE lastCall.args.error.text)
         /\ includes(lastCall.args.error.text, UnixPath) =>
              ~includes(sunk[i].properties.errorMessage, UnixPath)

C14_Witness ==
    /\ lastCall.method = "trackPluginWarning"
    /\ Len(lastCall.args.category) > 64
    /\ Len(lastCall.args.message) > 512
    /\ includes(lastCall.args.message, EmailAddress)
    /\ Events(Warning) = {1}
    /\ SubSeq(sunk[1].properties.message, 1, Len(EmailToken)) = EmailToken

\* The Completed event and the metric the claim names, for the arguments of
\* the latest call.
IsCompletedEvent(op) ==
    /\ op.op = "trackEvent" /\ op.name = Completed
    /\ op.properties.outcome = lastCall.args.outcome
    /\ op.properties.warningCount =
         IF lastCall.args.warningCount = undefined THEN <<"0">>
         ELSE String(Get(lastCall.args.warningCount))
    /\ op.measurements.durationMs = lastCall.args.durationMs

IsDurationMetric(op) ==
    /\ op.op = "trackMetric" /\ op.name = "plugin.duration"
    /\ op.value = lastCall.args.durationMs
    /\ op.properties.outcome = lastCall.args.outcome

\* C15 as stated: every trackPluginCompleted on an enabled client hands the
\* sink one Completed event and then one plugin.duration metric.
C15_EventAndMetric ==
    (isEnabled /\ lastCall.method = "trackPluginCompleted") =>
        /\ Len(sunk) = 2
        /\ IsCompletedEvent(sunk[1])
        /\ IsDurationMetric(sunk[2])

\* C15, amended: every trackPluginCompleted on an enabled client hands the
\* sink one Completed event with the call's outcome, warning count (0 when
\* omitted) and duration, and then, unless the sink's trackEvent threw, one
\* plugin.duration metric with the call's duration and outcome.
C15_EventThenMetric ==
    (isEnabled /\ lastCall.method = "trackPluginCompleted") =>
        /\ Len(sunk) \in {1, 2}
        /\ IsCompletedEvent(sunk[1])
        /\ Len(sunk) = 1 => lastCall.sinkThrew
        /\ Len(sunk) = 2 => IsDurationMetric(sunk[2])

C15_Witness ==
    /\ isEnabled /\ lastCall.method = "trackPluginCompleted"
    /\ lastCall.args.warningCount = undefined
    /\ ~lastCall.sinkThrew
    /\ Len(sunk) = 2

\* C16: the errorType of an Error event is the constructor name of the error
\* when it is an Error instance and "UnknownError" for any other value; the
\* message that is sanitized is error.message for an Error instance and
\* String(error) for any other value.
C16_ErrorTypeAndMessage ==
    \A i \in Events(Error) :
        LET error == lastCall.args.error
        IN  IF error.isError
            THEN /\ sunk[i].properties.errorType = error.name
                 /\ sunk[i].properties.errorMessage = Sanitize(Get(error.message))
            ELSE /\ sunk[i].properties.errorType = "UnknownError"
                 /\ sunk[i].properties.errorMessage = Sanitize(error.text)

C16_Witness ==
    /\ lastCall.method = "trackPluginError"
    /\ ~lastCall.args.error.isError
    /\ lastCall.args.error.message # undefined
    /\ Events(Error) = {1}
    /\ sunk[1].properties.errorType = "UnknownError"

---------------------------------------------------------------------------
(* Properties of the run hook. *)

\* The methods the current run has called on the client, in order.
Methods == [i \in 1..Len(clientCalls) |-> clientCalls[i].method]

Count(method) == Cardinality({i \in 1..Len(clientCalls) : clientCalls[i].method = method})

\* C6: every invocation of the run hook attempts flush() exactly once, after
\* the task body has finished, whether the body completed or threw.
C6_FlushOncePerRun ==
    /\ Count("flush") <= 1
    /\ Count("flush") = 1 =>
         /\ pc \in {"race", "idle"}
         /\ Methods[Len(Methods)] = "flush"
    /\ hookResult.state # "none" => Count("flush") = 1

C6_Witness ==
    /\ hookResult.state = "rejected"
    /\ body.throws = "lint"
    /\ Count("flush") = 1

\* s is n times the element x.
IsRepeat(s, x) == \A i \in 1..Len(s) : s[i] = x

C8_OutcomeIsTheBodys ==
    hookResult.state # "none" =>
        hookResult = IF body.throws = "never"
                     THEN [state |-> "resolved"]
                     ELSE [state |-> "rejected", error |-> body.error]

C8_Witness ==
    /\ isEnabled
    /\ hookResult.state = "rejected"
    /\ lastCall.method = "flush" /\ lastCall.sinkThrew
    /\ \E i \in 1..Len(clientCalls) :
         clientCalls[i].method = "trackPluginWarning"


\* C19: an invocation of the run hook that is past its initialisation uses a
\* client constructed for it: the session id of the client, and of every event
\* the invocation hands to the sink, is the one generated for this invocation
\* (the runs-th), and the client's opt-out decision is the gate's answer for
\* the environment of this invocation.
C19_ClientPerInvocation ==
    pc \notin {"idle", "telemetry"} =>
        /\ _context.sessionId = runs
        /\ \A i \in 1..Len(sunk) :
             sunk[i].op \in {"trackEvent", "trackMetric"} =>
                 sunk[i].context.sessionId = runs
        /\ optedOut = isTelemetryDisabled(env)

\* The number of trackPluginWarning calls the current run made before its
\* i-th call on the client.
WarningCallsBefore(i) ==
    Cardinality({j \in 1..(i - 1) : clientCalls[j].method = "trackPluginWarning"})

\* The outcome of a trackPluginCompleted call of the try block is warning
\* exactly when its count is above 0 and success exactly when it is 0.
OutcomeFollowsCount(call) ==
    call.outcome # "error" =>
        /\ call.outcome = "warning" <=> call.warningCount > 0
        /\ call.outcome = "success" <=> call.warningCount = 0

---------------------------------------------------------------------------
(* Properties of the build script. *)

\* C20: once the script has run with APP_INSIGHTS_CONNECTION_STRING set to a
\* valid credential over a lib/ that holds the compiled TelemetryClient, the
\* default credential of the compiled client is that credential and passes
\* the client's validation; with the variable unset no step changes a file.
C20_DefaultIsInjected ==
    [][/\ buildEnv = undefined => lib' = lib
       /\ (/\ script' = "returned"
           /\ buildEnv \in {Some(s) : s \in ValidConnectionStrings}
           /\ lib.exists /\ "client" \in DOMAIN lib.files)
          => /\ CompiledDefault(lib'.files["client"]) = Get(buildEnv)
             /\ isValidConnectionString(
                  Get(OrElse(undefined,
                             OrElse(EmptyEnv[CONNECTION_STRING_VAR],
                                    Some(CompiledDefault(lib'.files["client"]))))))]_vars

===========================================================================
